---- MODULE Spec2Model ----
(***************************************************************************)
(* A model of benten's tabbed main widget (gui/bentenmainwidget.py), its   *)
(* command console (gui/view/commandwidget.py) and its workflow model      *)
(* (models/workflow.py).                                                   *)
(*                                                                         *)
(* Three specifications share the module, one per component:               *)
(*   Spec          the main widget: tabs, signal connections, autosave     *)
(*   SpecConsole   the command line, its history and the transcript        *)
(*   SpecWorkflow  construction of a Workflow from a CWL document          *)
(* Each one leaves the variables of the other components untouched.        *)
(***************************************************************************)
EXTENDS Integers, Sequences, FiniteSets, TLC

VARIABLES
    \* ---- BentenMainWidget ----
    tabs,            \* QTabWidget pages, in tab order: [w |-> view, hidden |-> close button hidden]
    current,         \* QTabWidget.currentIndex(), 1-based; 0 stands for Qt's -1 (no tab)
    active_window,   \* BentenMainWidget.active_window
    active,          \* the views whose last notification was set_active_window
    connections,     \* per view: how many times its signals are connected to the shell's slots
    autosave,        \* config["files"]["autosave"]
    readd,           \* what the toolkit does when addTab is handed a page it already holds
    disk,            \* the files autosave has written
    shell_last,      \* what the last shell operation did (observation only)
    \* ---- CommandLine / CommandWidget ----
    text,            \* QLineEdit text of the command line
    history,         \* CommandLine.history
    history_n,       \* CommandLine.history_n
    command_log,     \* the transcript (QTextEdit contents), a sequence of pieces
    process_type,    \* class of the document the console is attached to
    scaffold_exists, \* whether <template_dir>/step-template.cwl exists
    scenario,        \* progress along the foo/bar history walk (observation only)
    console_last,    \* what the last console event did (observation only)
    submitted,       \* the command lines submitted so far, in order (observation only)
    \* ---- Workflow ----
    cwl_doc,         \* the document handed to Workflow.__init__
    workflow         \* the constructed Workflow, or the fault that left the constructor

shell_vars == <<tabs, current, active_window, active, connections, autosave, readd, disk, shell_last>>
console_vars == <<text, history, history_n, command_log, process_type, scaffold_exists, scenario, console_last, submitted>>
workflow_vars == <<cwl_doc, workflow>>
vars == <<shell_vars, console_vars, workflow_vars>>

(***************************************************************************)
(* Bounds of the model.                                                    *)
(***************************************************************************)
MaxOpens == 3

(***************************************************************************)
(* Generic helpers.                                                        *)
(***************************************************************************)
RemoveAt(s, i) == [j \in 1..(Len(s) - 1) |-> IF j < i THEN s[j] ELSE s[j + 1]]

Range(s) == {s[i] : i \in 1..Len(s)}

IsPrefix(s, t) == Len(s) <= Len(t) /\ SubSeq(t, 1, Len(s)) = s

\* Python's None where a tuple or a string (a sequence of atoms) is expected
None == <<"None">>

\* no exception left the operation
NoFault == "none"

(***************************************************************************)
(* The workflow model.  A string the code takes apart (a source, split at  *)
(* "/") is a sequence of atoms, "/" being one of them; an id is one atom.  *)
(* The line range of a node of the document is the node's path in it.      *)
(***************************************************************************)
MaxSources == 2

SeqsUpTo(S, n) == UNION {[1..k -> S] : k \in 0..n}

\* the list of sections without class
RequiredSections_without_class == <<"cwlVersion", "inputs", "outputs", "steps">>

RequiredSections == <<"cwlVersion", "class", "inputs", "outputs", "steps">>

\* the files of the directory of the document, parsed; any other file is missing
FileSystem == [p \in {"/wf/tool.cwl"} |-> [inputs |-> <<"i1">>, outputs |-> <<"o1">>]]

\* pathlib.Path(root.parent, run).resolve() for the document /wf/wf.cwl
Resolve(root, run) ==
    CASE run = "tool.cwl" -> "/wf/tool.cwl"
      [] run = "../wf/tool.cwl" -> "/wf/tool.cwl"
      [] run = "missing.cwl" -> "/wf/missing.cwl"
      [] OTHER -> "None"

as_uri(path) == <<"file://", path>>

\* ---- the values of the model ----
Port(node_id, port_id, line) == [node_id |-> node_id, port_id |-> port_id, line |-> line]

\* Port.__eq__
PortEq(a, b) == a.node_id = b.node_id /\ a.port_id = b.port_id

NoPort == Port("None", "None", None)

\* a sub-workflow reference is an instance of one of the three classes, or, as
\* line 131 leaves it, the class InvalidSub itself
InvalidSub == [cls |-> "InvalidSub", is |-> "instance", path |-> "None", inline_path |-> None]

InvalidSubClass == [cls |-> "InvalidSub", is |-> "class", path |-> "None", inline_path |-> None]

\* an Inline reference that keeps the step id only, not the path to the step
InlineSub_step_id_only(path, inline_path) ==
    [cls |-> "InlineSub", is |-> "instance", path |-> path,
     inline_path |-> <<inline_path[Len(inline_path)]>>]

InlineSub(path, inline_path) ==
    [cls |-> "InlineSub", is |-> "instance", path |-> path, inline_path |-> inline_path]

ExternalSub(path) ==
    [cls |-> "ExternalSub", is |-> "instance", path |-> path, inline_path |-> None]

isinstance(obj, cls) == obj.is = "instance" /\ obj.cls = cls

Step(id, line, sinks, sources, sub_workflow) ==
    [id |-> id, line |-> line, available_sinks |-> sinks,
     available_sources |-> sources, sub_workflow |-> sub_workflow]

Connection(src, dst, line) == [src |-> src, dst |-> dst, line |-> line]

\* Connection.__eq__
ConnectionEq(a, b) == PortEq(a.src, b.src) /\ PortEq(a.dst, b.dst)

\* ---- the documents ----
NoRun == [kind |-> "absent", value |-> "", inputs |-> <<>>, outputs |-> <<>>]

RunStr(v) == [kind |-> "str", value |-> v, inputs |-> <<>>, outputs |-> <<>>]

RunProcess(ins, outs) == [kind |-> "process", value |-> "", inputs |-> ins, outputs |-> outs]

\* a step body: None (an empty body) or a mapping
NoneBody == [kind |-> "None", run |-> NoRun, in |-> <<>>]

MapBody(run, in) == [kind |-> "CWLMap", run |-> run, in |-> in]

\* cwl_dict.get(section, {}): the entries of a section, none when it is missing
get(cwl_dict, section) == IF section \in cwl_dict.keys THEN cwl_dict[section] ELSE <<>>

\* dictionary lookup by id in a sequence of entries [id |-> ..]
Has(entries, id) == \E i \in 1..Len(entries) : entries[i].id = id

Get(entries, id) == entries[CHOOSE i \in 1..Len(entries) : entries[i].id = id]

\* Step.from_doc: the Step of one entry of steps, and the error list it leaves
from_doc(step_id, line, doc, wf_error_list) ==
    LET step_doc == Get(doc.cwl_dict.steps, step_id).body
        root == doc.path
        run == step_doc.run
        sub_p_path == Resolve(root, run.value)
        found == sub_p_path \in DOMAIN FileSystem
        sub_process ==
            IF run.kind = "str"
            THEN (IF found THEN FileSystem[sub_p_path]
                  ELSE [inputs |-> <<>>, outputs |-> <<>>])
            ELSE [inputs |-> run.inputs, outputs |-> run.outputs]
        sub_workflow ==
            IF run.kind = "str"
            THEN (IF found THEN ExternalSub(sub_p_path) ELSE InvalidSubClass)
            ELSE InlineSub(root, (IF doc.inline_path = None THEN <<>> ELSE doc.inline_path)
                                  \o <<step_id>>)
        ports(ids) == [i \in 1..Len(ids) |-> Port(step_id, ids[i], None)]
    IN  IF step_doc.kind = "None" \/ run.kind = "absent"
        THEN [step |-> Step(step_id, line, <<>>, <<>>, InvalidSub),
              errors |-> Append(wf_error_list, <<"step ", step_id, " has no run field">>)]
        ELSE [step |-> Step(step_id, line, ports(sub_process.inputs),
                            ports(sub_process.outputs), sub_workflow),
              errors |-> IF run.kind = "str" /\ ~found
                         THEN Append(wf_error_list,
                                     <<"Could not find sub workflow: ", run.value,
                                       " (resolved to ">> \o as_uri(sub_p_path) \o <<")">>)
                         ELSE wf_error_list]


\* a scalar or a CWLList, as the value of source / outputSource / a bare in entry
Scalar(v) == [kind |-> "str", obj |-> <<v>>]

CWLList(l) == [kind |-> "CWLList", obj |-> l]

iter_scalar_or_list(obj) == IF obj.kind = "CWLList" THEN obj.obj ELSE <<obj.obj[1]>>

\* str.split("/"): the parts between the separators
RECURSIVE split(_, _)
split(str, sep) ==
    IF sep \notin Range(str) THEN <<str>>
    ELSE LET i == CHOOSE k \in 1..Len(str) :
                      str[k] = sep /\ \A j \in 1..(k - 1) : str[j] # sep
         IN  <<SubSeq(str, 1, i - 1)>> \o split(SubSeq(str, i + 1, Len(str)), sep)

\* key lookup in an ordered mapping id -> Port; a key is one atom
HasPort(ports, key) == Len(key) = 1 /\ \E i \in 1..Len(ports) : ports[i].port_id = key[1]

GetPort(ports, key) == ports[CHOOSE i \in 1..Len(ports) : ports[i].port_id = key[1]]

HasStep(steps, key) == Len(key) = 1 /\ \E i \in 1..Len(steps) : steps[i].id = key[1]

GetStep(steps, key) == steps[CHOOSE i \in 1..Len(steps) : steps[i].id = key[1]]

\* the outcome of a source lookup: a Port, a WFConnectionError with its message,
\* or another exception
Found(port) == [raised |-> "none", port |-> port, msg |-> <<>>]

WFConnectionError(msg) == [raised |-> "WFConnectionError", port |-> NoPort, msg |-> msg]

Raised(exc) == [raised |-> exc, port |-> NoPort, msg |-> <<>>]

\* Workflow._get_step_source
_get_step_source(self, _src) ==
    LET parts == split(_src, "/")
    IN  IF Len(parts) # 2
        THEN Raised("ValueError")     \* src_step_id, src_port_id = _src.split("/")
        ELSE LET src_step_id == parts[1]
                 src_port_id == parts[2]
             IN  IF ~HasStep(self.steps, src_step_id)
                 THEN WFConnectionError(<<"No such source step ">> \o src_step_id)
                 ELSE IF ~HasPort(GetStep(self.steps, src_step_id).available_sources,
                                  src_port_id)
                 THEN WFConnectionError(<<"No such source port ">> \o src_step_id
                                        \o <<".">> \o src_port_id)
                 ELSE Found(GetPort(GetStep(self.steps, src_step_id).available_sources,
                                    src_port_id))

\* a source lookup that takes every name without "/" for a workflow input
_get_source_unchecked_input(self, _src) ==
    IF _src = None \/ _src = <<>>
    THEN WFConnectionError(<<"No source specified">>)
    ELSE IF "/" \in Range(_src)
    THEN _get_step_source(self, _src)
    ELSE Found(Port("None", Head(_src), None))

\* Workflow._get_source
_get_source(self, _src) ==
    IF _src = None \/ _src = <<>>
    THEN WFConnectionError(<<"No source specified">>)
    ELSE IF "/" \in Range(_src)
    THEN _get_step_source(self, _src)
    ELSE IF ~HasPort(self.inputs, _src)
    THEN WFConnectionError(<<"No such WF input ">> \o _src)
    ELSE Found(GetPort(self.inputs, _src))

\* Step.__repr__
StepRepr(step) ==
    [i \in 1..Len(step.available_sinks) |-> step.available_sinks[i].port_id]
    \o <<"->", step.id, "->">>
    \o [i \in 1..Len(step.available_sources) |-> step.available_sources[i].port_id]

\* for _src in iter_scalar_or_list(..): try: .. except WFConnectionError: ..
\* acc holds the connections and problems so far and the exception that ended
\* the pass, if any
RECURSIVE connect_sources(_, _, _, _, _, _)
connect_sources(self, acc, srcs, sink, ln, scope) ==
    IF srcs = <<>> \/ acc.fault # NoFault THEN acc
    ELSE LET r == _get_source(self, Head(srcs))
             next ==
                 IF r.raised = "none"
                 THEN [acc EXCEPT !.connections = Append(@, Connection(r.port, sink, ln))]
                 ELSE IF r.raised = "WFConnectionError"
                 THEN [acc EXCEPT !.problems = Append(@, scope \o <<": ">> \o r.msg)]
                 ELSE [acc EXCEPT !.fault = r.raised]
         IN  connect_sources(self, next, Tail(srcs), sink, ln, scope)

\* the pass over the in entries taking no bare source string: only a mapping
\* with the key source connects
connect_step_full_form_only(self, acc, step_id, this_step, entries) ==
    IF entries = <<>> \/ acc.fault # NoFault THEN acc
    ELSE LET step_sink_id == Head(entries).id
             port_doc == Head(entries).port_doc
         IN  IF /\ HasPort(this_step.available_sinks, <<step_sink_id>>)
                /\ port_doc.kind = "CWLMap" /\ port_doc.has_source
             THEN connect_sources(self, acc, iter_scalar_or_list(port_doc.value),
                                  GetPort(this_step.available_sinks, <<step_sink_id>>),
                                  <<"steps", step_id, "in", step_sink_id>>,
                                  StepRepr(this_step) \o <<".", step_sink_id>>)
             ELSE acc

\* for step_sink_id, port_doc in step_doc.get("in", {}): ..
RECURSIVE connect_step(_, _, _, _, _)
connect_step(self, acc, step_id, this_step, entries) ==
    IF entries = <<>> \/ acc.fault # NoFault THEN acc
    ELSE LET step_sink_id == Head(entries).id
             port_doc == Head(entries).port_doc
             rest == Tail(entries)
             has_sink == HasPort(this_step.available_sinks, <<step_sink_id>>)
             sink == GetPort(this_step.available_sinks, <<step_sink_id>>)
             scope == StepRepr(this_step) \o <<".", step_sink_id>>
         IN  IF ~has_sink
             THEN connect_step(self,
                      [acc EXCEPT !.problems =
                          Append(@, <<"No such sink: ", this_step.id, ".", step_sink_id>>)],
                      step_id, this_step, rest)
             ELSE IF port_doc.kind \in {"str", "plain_list"}
             THEN connect_step(self,
                      connect_sources(self, acc, iter_scalar_or_list(port_doc.value), sink,
                                      <<"steps", step_id, "in">>, scope),
                      step_id, this_step, rest)
             ELSE IF port_doc.kind = "CWLMap"
             THEN (IF port_doc.has_source
                   THEN connect_step(self,
                            connect_sources(self, acc, iter_scalar_or_list(port_doc.value),
                                            sink, <<"steps", step_id, "in", step_sink_id>>,
                                            scope),
                            step_id, this_step, rest)
                   ELSE connect_step(self, acc, step_id, this_step, rest))
             ELSE connect_step(self,
                      [acc EXCEPT !.problems =
                          Append(@, <<"Can't parse source for ">> \o scope)],
                      step_id, this_step, rest)

\* for step_id, step_doc in cwl_dict.get("steps", {}): ..
RECURSIVE connect_steps(_, _, _)
connect_steps(self, acc, step_docs) ==
    IF step_docs = <<>> \/ acc.fault # NoFault THEN acc
    ELSE LET step_id == Head(step_docs).id
             step_doc == Head(step_docs).body
         IN  IF step_doc.kind # "CWLMap"
             THEN connect_steps(self,
                      [acc EXCEPT !.problems = Append(@, <<"Invalid step: ", step_id>>)],
                      Tail(step_docs))
             ELSE connect_steps(self,
                      connect_step(self, acc, step_id, GetStep(self.steps, <<step_id>>),
                                   step_doc.in),
                      Tail(step_docs))

\* for out_id, out_doc in cwl_dict.get("outputs", {}): ..
RECURSIVE connect_outputs(_, _, _)
connect_outputs(self, acc, out_docs) ==
    IF out_docs = <<>> \/ acc.fault # NoFault THEN acc
    ELSE LET out_id == Head(out_docs).id
             out_doc == Head(out_docs)
             sink == GetPort(self.outputs, <<out_id>>)
         IN  connect_outputs(self,
                 IF out_doc.has_outputSource
                 THEN connect_sources(self, acc, iter_scalar_or_list(out_doc.outputSource),
                                      sink, <<"outputs", out_id>>, <<sink.port_id>>)
                 ELSE acc,
                 Tail(out_docs))

\* Workflow._list_connections: the connections, the problem list it leaves and
\* the exception that left it, if any
_list_connections(self, cwl_dict) ==
    connect_outputs(self,
        connect_steps(self,
            [connections |-> <<>>, problems |-> self.problems_with_wf, fault |-> NoFault],
            get(cwl_dict, "steps")),
        get(cwl_dict, "outputs"))

\* Workflow._parse_ports: one boundary Port per entry; its line range is the one
\* of the entry's value when that is a mapping or a list, else the section's
_parse_ports(obj, section) ==
    [i \in 1..Len(obj) |->
        Port("None", obj[i].id,
             IF obj[i].node THEN <<section, obj[i].id>> ELSE <<section>>)]

\* self.steps = OrderedDict((k, Step.from_doc(.., line=(v.start_line, v.end_line), ..))
\*                          for k, v in cwl_dict.get("steps", {}))
RECURSIVE build_steps(_, _, _)
build_steps(doc, acc, step_docs) ==
    IF step_docs = <<>> \/ acc.fault # NoFault THEN acc
    ELSE LET k == Head(step_docs).id
             v == Head(step_docs).body
             made == from_doc(k, <<"steps", k>>, doc, acc.errors)
         IN  IF v.kind = "None"
             THEN [acc EXCEPT !.fault = "AttributeError"]    \* None has no start_line
             ELSE build_steps(doc,
                      [acc EXCEPT !.steps = Append(@, made.step), !.errors = made.errors],
                      Tail(step_docs))

\* what a constructor that raised leaves behind
Faulted(exc) ==
    [fault |-> exc, section_lines |-> {}, inputs |-> <<>>, outputs |-> <<>>,
     steps |-> <<>>, connections |-> <<>>, problems_with_wf |-> <<>>]

\* Workflow.__init__
Workflow(doc) ==
    LET cwl_dict == doc.cwl_dict
        missing == SelectSeq(RequiredSections, LAMBDA sec : sec \notin cwl_dict.keys)
        problems0 == [i \in 1..Len(missing) |-> <<"'", missing[i], "' missing">>]
        section_lines == {[section |-> sec, line |-> <<sec>>] :
                              sec \in {"inputs", "outputs"} \cap cwl_dict.keys}
        built == build_steps(doc, [steps |-> <<>>, errors |-> problems0, fault |-> NoFault],
                             get(cwl_dict, "steps"))
        self == [fault |-> NoFault,
                 section_lines |-> section_lines,
                 inputs |-> _parse_ports(get(cwl_dict, "inputs"), "inputs"),
                 outputs |-> _parse_ports(get(cwl_dict, "outputs"), "outputs"),
                 steps |-> built.steps,
                 connections |-> <<>>,
                 problems_with_wf |-> built.errors]
        listed == _list_connections(self, cwl_dict)
    IN  IF built.fault # NoFault THEN Faulted(built.fault)
        ELSE IF listed.fault # NoFault THEN Faulted(listed.fault)
        ELSE [self EXCEPT !.connections = listed.connections,
                          !.problems_with_wf = listed.problems]

(***************************************************************************)
(* The documents the workflow model is built from: syntactically valid     *)
(* documents, varied one part at a time around a base workflow.            *)
(***************************************************************************)
Sources ==
    {None, <<>>, <<"in1">>, <<"nope">>, <<"s1", "/", "o1">>, <<"s1", "/", "nope">>,
     <<"nope", "/", "o1">>, <<"s1", "/", "o1", "/", "x">>}

SrcValues ==
    {Scalar(src) : src \in Sources} \cup {CWLList(l) : l \in SeqsUpTo(Sources, MaxSources)}

PortDoc(kind, has_source, value) == [kind |-> kind, has_source |-> has_source, value |-> value]

PortDocs ==
    {PortDoc("str", FALSE, Scalar(src)) : src \in Sources \ {None}}
    \cup {PortDoc("plain_list", FALSE, CWLList(l)) : l \in SeqsUpTo(Sources, MaxSources)}
    \cup {PortDoc("CWLMap", TRUE, v) : v \in SrcValues}
    \cup {PortDoc("CWLMap", FALSE, Scalar(None)), PortDoc("other", FALSE, Scalar(None))}

InMappings ==
    {<<>>} \cup {<<[id |-> sink, port_doc |-> pd]>> : sink \in {"i1", "nosink"}, pd \in PortDocs}

RunValues ==
    {NoRun, RunStr("tool.cwl"), RunStr("../wf/tool.cwl"), RunStr("missing.cwl"),
     RunProcess(<<"i1">>, <<"o1">>)}

StepBodies == {NoneBody} \cup {MapBody(run, <<>>) : run \in RunValues}

BaseStep == [id |-> "s1", body |-> MapBody(RunProcess(<<"i1">>, <<"o1">>), <<>>)]

BaseInputs == <<[id |-> "in1", node |-> TRUE], [id |-> "in2", node |-> FALSE]>>

OutDoc(id, has_outputSource, outputSource) ==
    [id |-> id, node |-> TRUE, has_outputSource |-> has_outputSource,
     outputSource |-> outputSource]

BaseOutputs == <<OutDoc("out1", TRUE, Scalar(<<"s1", "/", "o1">>))>>

AllSections == Range(RequiredSections)

CwlDoc(inline_path, keys, inputs, outputs, steps) ==
    [path |-> "/wf/wf.cwl", inline_path |-> inline_path,
     cwl_dict |-> [keys |-> keys,
                   inputs |-> IF "inputs" \in keys THEN inputs ELSE <<>>,
                   outputs |-> IF "outputs" \in keys THEN outputs ELSE <<>>,
                   steps |-> IF "steps" \in keys THEN steps ELSE <<>>]]

BaseDoc == CwlDoc(None, AllSections, BaseInputs, BaseOutputs, <<BaseStep>>)

\* every subset of the required sections, at the root and inside a step
SectionDocs ==
    {CwlDoc(ip, keys, BaseInputs, BaseOutputs, <<BaseStep>>) :
        ip \in {None, <<>>, <<"s0">>}, keys \in SUBSET AllSections}

\* one or two steps with every kind of body
StepDocs ==
    {CwlDoc(None, AllSections, BaseInputs, BaseOutputs, <<[id |-> "s1", body |-> b]>>) :
        b \in StepBodies}
    \cup {CwlDoc(None, AllSections, BaseInputs, BaseOutputs,
                 <<[id |-> "s1", body |-> b1], [id |-> "s2", body |-> b2]>>) :
            b1 \in StepBodies, b2 \in StepBodies}

\* a second step with every run value and every in mapping
ConnectionDocs ==
    {CwlDoc(None, AllSections, BaseInputs, BaseOutputs,
            <<BaseStep, [id |-> "s2", body |-> MapBody(run, in)]>>) :
        run \in RunValues \ {NoRun}, in \in InMappings}

\* an output with and without outputSource
OutputDocs ==
    {CwlDoc(None, AllSections, BaseInputs, <<OutDoc("out1", FALSE, Scalar(None))>>,
            <<BaseStep>>)}
    \cup {CwlDoc(None, AllSections, BaseInputs, <<OutDoc("out1", TRUE, v)>>, <<BaseStep>>) :
            v \in SrcValues}

Docs == SectionDocs \cup StepDocs \cup ConnectionDocs \cup OutputDocs

NotBuilt == Faulted("not built")

InitWorkflow == cwl_doc = BaseDoc /\ workflow = NotBuilt

\* a view builds the Workflow of its document
Build ==
    /\ workflow = NotBuilt
    /\ workflow' = Workflow(cwl_doc)
    /\ UNCHANGED cwl_doc


(***************************************************************************)
(* The main widget.  Its operations are written as functions on a record   *)
(* st of the widget's fields, so that a handler that calls another one     *)
(* (scene_double_clicked calls open_document, setCurrentIndex fires        *)
(* breadcrumb_selected) is one step of the model.                          *)
(***************************************************************************)
Paths == {"/wf/wf.cwl", "/wf/tool.cwl"}

InlinePaths == {<<>>, <<"s1">>}

View == [path : Paths, inline_path : InlinePaths]

NoView == [path |-> "None", inline_path |-> <<>>]

ShellState == [tabs |-> tabs, current |-> current, active_window |-> active_window,
               active |-> active, connections |-> connections, fault |-> NoFault,
               calls |-> <<>>]

\* MultiDocumentManager.open_window: one view widget per (path, inline path); the
\* empty inline path and None both denote the root of the file
open_window(parent_path, inline_path) ==
    [path |-> parent_path,
     inline_path |-> IF inline_path = None THEN <<>> ELSE inline_path]

count(st) == Len(st.tabs)

currentWidget(st) == IF st.current = 0 THEN NoView ELSE st.tabs[st.current].w

\* the slot of currentChanged
breadcrumb_selected(st) ==
    LET off == IF st.active_window # NoView
               THEN st.active \ {st.active_window} ELSE st.active
        told == IF st.active_window # NoView
                THEN Append(st.calls, [call |-> "set_inactive_window",
                                       view |-> st.active_window])
                ELSE st.calls
        cw == currentWidget(st)
    IN  IF cw = NoView
        THEN [st EXCEPT !.active = off, !.active_window = NoView,
                        !.fault = "AttributeError", !.calls = told]
        ELSE [st EXCEPT !.active = off \cup {cw}, !.active_window = cw,
                        !.calls = Append(told, [call |-> "set_active_window",
                                                view |-> cw])]

\* QTabWidget.setCurrentIndex: currentChanged is emitted when the index changes
setCurrentIndex(st, idx) ==
    IF idx = st.current THEN st
    ELSE breadcrumb_selected([st EXCEPT !.current = idx])

\* QTabWidget.removeTab, the slot of tabCloseRequested: the tab to the right of
\* a removed current tab becomes current (the last one when there is none)
removeTab(st, i) ==
    LET t == RemoveAt(st.tabs, i)
        c == IF i < st.current THEN st.current - 1
             ELSE IF i = st.current THEN (IF i <= Len(t) THEN i ELSE Len(t))
             ELSE st.current
        s1 == [st EXCEPT !.tabs = t, !.current = c]
    IN  IF i <= st.current THEN breadcrumb_selected(s1) ELSE s1

\* QTabWidget.addTab: appends a page; the first page of an empty widget becomes
\* current.  A page the widget already holds is either appended a second time
\* or first taken out of its old tab, whichever the toolkit does (readd).
addTab(st, w) ==
    LET idxs == {i \in 1..Len(st.tabs) : st.tabs[i].w = w}
        s0 == IF readd = "move" /\ idxs # {}
              THEN removeTab(st, CHOOSE i \in idxs : TRUE) ELSE st
        s1 == [s0 EXCEPT !.tabs = Append(s0.tabs, [w |-> w, hidden |-> FALSE])]
    IN  IF Len(s0.tabs) = 0
        THEN breadcrumb_selected([s1 EXCEPT !.current = 1]) ELSE s1

_make_base_tab_unclosable(st) == [st EXCEPT !.tabs[1].hidden = TRUE]

\* for idx in range(self.count()): if self.widget(idx) == bw: self.setCurrentIndex(idx)
RECURSIVE focus_loop(_, _, _)
focus_loop(st, bw, idx) ==
    IF idx > count(st) THEN st
    ELSE focus_loop(IF st.tabs[idx].w = bw THEN setCurrentIndex(st, idx) ELSE st,
                    bw, idx + 1)

\* The else clause of a Python for loop runs unless the loop was left by break;
\* the loop of open_document has no break.
else_clause_runs(found) == TRUE

open_document(st, parent_path, inline_path) ==
    LET bw == open_window(parent_path, inline_path)
        found == \E i \in 1..count(st) : st.tabs[i].w = bw
        s1 == focus_loop(st, bw, 1)
        s2 == [s1 EXCEPT !.connections[bw] = @ + 1]
        s3 == addTab(s2, bw)
        s4 == setCurrentIndex(s3, count(s3))
        s5 == IF else_clause_runs(found) THEN s4 ELSE s1
    IN  IF count(s5) = 1 THEN _make_base_tab_unclosable(s5) ELSE s5

\* the slot of a view's scene_double_clicked signal
RECURSIVE scene_double_clicked(_, _)
scene_double_clicked(st, sub_workflows) ==
    IF sub_workflows = <<>> THEN st
    ELSE LET sub == Head(sub_workflows)
         IN  IF isinstance(sub, "InvalidSub")
             THEN scene_double_clicked(st, Tail(sub_workflows))
             ELSE IF isinstance(sub, "InlineSub")
             THEN scene_double_clicked(open_document(st, sub.path, sub.inline_path),
                                       Tail(sub_workflows))
             ELSE IF isinstance(sub, "ExternalSub")
             THEN scene_double_clicked(open_document(st, sub.path, None),
                                       Tail(sub_workflows))
             ELSE [st EXCEPT !.fault = "RuntimeError: Code error: Unknown sub workflow type!"]

\* the slot of a view's edit_registered signal; cwl_doc_to_save is what
\* MultiDocumentManager.apply_document_edits returned: the path of the root
\* document to save, or "None".  io is the files written and the calls made.
edit_registered(io, doc, cwl_doc_to_save) ==
    LET applied == [io EXCEPT !.events = Append(@, [call |-> "apply_document_edits",
                                                     path |-> cwl_doc_to_save])]
    IN  IF cwl_doc_to_save # "None" /\ autosave
        THEN [applied EXCEPT !.disk = @ \cup {cwl_doc_to_save},
                             !.events = Append(@, [call |-> "write",
                                                   path |-> cwl_doc_to_save])]
        ELSE applied

\* emitting a signal runs its slot once per connection made to it
RECURSIVE emit_scene_double_clicked(_, _, _)
emit_scene_double_clicked(st, n, sub_workflows) ==
    IF n = 0 THEN st
    ELSE emit_scene_double_clicked(scene_double_clicked(st, sub_workflows), n - 1,
                                   sub_workflows)

RECURSIVE emit_edit_registered(_, _, _)
emit_edit_registered(io, doc, returns) ==
    IF returns = <<>> THEN io
    ELSE emit_edit_registered(edit_registered(io, doc, Head(returns)), doc,
                              Tail(returns))

\* the sub-workflow references Step.from_doc attaches to the steps of the
\* document a view shows
SubWorkflowsOf(view) ==
    {from_doc("s1", <<"steps", "s1">>,
              [path |-> view.path, inline_path |-> view.inline_path,
               cwl_dict |-> [keys |-> AllSections, inputs |-> <<>>, outputs |-> <<>>,
                             steps |-> <<[id |-> "s1", body |-> b]>>]],
              <<>>).step.sub_workflow : b \in StepBodies}

\* the references under a double-clicked element: those of one step or of two
SubWorkflowLists(view) ==
    {<<sub>> : sub \in SubWorkflowsOf(view)}
    \cup {<<a, b>> : a \in SubWorkflowsOf(view), b \in SubWorkflowsOf(view)}

\* every open_document call connects once: the connections count the calls
RECURSIVE Total(_, _)
Total(f, S) ==
    IF S = {} THEN 0
    ELSE LET x == CHOOSE y \in S : TRUE IN f[x] + Total(f, S \ {x})

WithinBounds(st) == Total(st.connections, View) <= MaxOpens

Observed(op, key, st, events) ==
    [op |-> op, key |-> key,
     found |-> \E i \in 1..Len(tabs) : tabs[i].w = key,
     count0 |-> Len(tabs),
     same_tabs |-> st.tabs = tabs,
     same_connections |-> st.connections = connections,
     runs |-> IF key \in View THEN connections[key] ELSE 0,
     fault |-> st.fault,
     active0 |-> active_window,
     calls |-> st.calls,
     events |-> events]

ShellStart ==
    /\ tabs = <<>>
    /\ current = 0
    /\ active_window = NoView
    /\ active = {}
    /\ connections = [v \in View |-> 0]
    /\ disk = {}
    /\ shell_last = [op |-> "init", key |-> NoView, found |-> FALSE, count0 |-> 0,
                     same_tabs |-> TRUE, same_connections |-> TRUE, runs |-> 0,
                     fault |-> NoFault, active0 |-> NoView, calls |-> <<>>,
                     events |-> <<>>]

InitShell ==
    /\ ShellStart
    /\ autosave \in BOOLEAN
    /\ readd \in {"append", "move"}

IdleShell ==
    /\ ShellStart
    /\ autosave = FALSE
    /\ readd = "move"

Becomes(st) ==
    /\ tabs' = st.tabs
    /\ current' = st.current
    /\ active_window' = st.active_window
    /\ active' = st.active
    /\ connections' = st.connections

\* the application opens a document
OpenDocument ==
    \E parent_path \in Paths, inline_path \in InlinePaths :
        LET st == open_document(ShellState, parent_path, inline_path)
        IN  /\ WithinBounds(st)
            /\ Becomes(st)
            /\ shell_last' = Observed("open_document",
                                      open_window(parent_path, inline_path), st, <<>>)
            /\ UNCHANGED <<autosave, readd, disk>>

\* the user clicks the close button of a tab
CloseTab ==
    \E i \in 1..Len(tabs) :
        LET st == removeTab(ShellState, i)
        IN  /\ ~tabs[i].hidden
            /\ Becomes(st)
            /\ shell_last' = Observed("removeTab", tabs[i].w, st, <<>>)
            /\ UNCHANGED <<autosave, readd, disk>>

\* the user clicks another tab
SwitchTab ==
    \E i \in 1..Len(tabs) :
        LET st == setCurrentIndex(ShellState, i)
        IN  /\ i # current
            /\ Becomes(st)
            /\ shell_last' = Observed("setCurrentIndex", tabs[i].w, st, <<>>)
            /\ UNCHANGED <<autosave, readd, disk>>

\* the user double-clicks an element of the current view's scene
SceneDoubleClicked ==
    /\ current # 0
    /\ LET view == currentWidget(ShellState)
       IN  \E sub_workflows \in SubWorkflowLists(view) :
               LET st == emit_scene_double_clicked(ShellState, connections[view],
                                                   sub_workflows)
               IN  /\ \A i \in 1..Len(sub_workflows) :
                          isinstance(sub_workflows[i], "InlineSub") =>
                              sub_workflows[i].inline_path \in InlinePaths
                   /\ WithinBounds(st)
                   /\ Becomes(st)
                   /\ shell_last' = Observed("scene_double_clicked", view, st, <<>>)
                   /\ UNCHANGED <<autosave, readd, disk>>

\* the current view emits an edit
EditRegistered ==
    /\ current # 0
    /\ LET view == currentWidget(ShellState)
       IN  \E returns \in [1..connections[view] -> {"None", view.path}] :
               LET io == emit_edit_registered([disk |-> disk, events |-> <<>>],
                                              view.path, returns)
               IN  /\ disk' = io.disk
                   /\ shell_last' = Observed("edit_registered", view, ShellState, io.events)
                   /\ UNCHANGED <<tabs, current, active_window, active, connections,
                                  autosave, readd>>


(***************************************************************************)
(* The command console.  A command line is a sequence of characters; a     *)
(* word that is never taken apart is one character of the model, the       *)
(* blank and the quote are characters of their own.                        *)
(***************************************************************************)
MaxSubmissions == 1
MaxHistorySubmissions == 4

\* ---- CommandLine ----

\* keyPressEvent with the cursor stopping at the ends instead of wrapping
keyPressEvent_clamped(key, hist, n, txt) ==
    LET moved == IF key = "Key_Up" THEN n - 1 ELSE n + 1
        clamped == IF moved < 0 THEN 0
                   ELSE IF moved > Len(hist) - 1 THEN Len(hist) - 1 ELSE moved
    IN  [history_n |-> clamped, text |-> hist[clamped + 1]]

\* CommandLine.keyPressEvent for the keys Up and Down: the cursor and the text
\* of the field afterwards
keyPressEvent(key, hist, n, txt) ==
    LET moved == IF key = "Key_Up" THEN n - 1 ELSE n + 1
        wrapped == IF key = "Key_Up"
                   THEN (IF moved < 0 THEN Len(hist) - 1 ELSE moved)
                   ELSE (IF moved > Len(hist) - 1 THEN 0 ELSE moved)
    IN  [history_n |-> wrapped,
         text |-> IF -1 < wrapped /\ wrapped < Len(hist) THEN hist[wrapped + 1] ELSE txt]

\* CommandLine.command_entered appending every submitted text
line_command_entered_always_appends(hist, txt) ==
    [history |-> Append(hist, txt), history_n |-> Len(hist) + 1]

\* CommandLine.command_entered, the first slot of returnPressed
line_command_entered(hist, txt) ==
    LET appended == IF txt \notin Range(hist) THEN Append(hist, txt) ELSE hist
    IN  [history |-> appended, history_n |-> Len(appended)]

\* ---- CommandWidget ----

\* shlex.split: blanks separate the tokens, quotes keep blanks inside a token;
\* a quote left open raises ValueError
RECURSIVE shlex(_, _, _, _, _)
shlex(chars, tokens, token, in_token, in_quote) ==
    IF chars = <<>>
    THEN (IF in_quote THEN [raised |-> "ValueError: No closing quotation", tokens |-> <<>>]
          ELSE [raised |-> NoFault,
                tokens |-> IF in_token THEN Append(tokens, token) ELSE tokens])
    ELSE LET c == Head(chars)
             rest == Tail(chars)
         IN  IF in_quote
             THEN (IF c = "'" THEN shlex(rest, tokens, token, TRUE, FALSE)
                   ELSE shlex(rest, tokens, Append(token, c), TRUE, TRUE))
             ELSE IF c = "'" THEN shlex(rest, tokens, token, TRUE, TRUE)
             ELSE IF c = " "
             THEN (IF in_token THEN shlex(rest, Append(tokens, token), <<>>, FALSE, FALSE)
                   ELSE shlex(rest, tokens, token, FALSE, FALSE))
             ELSE shlex(rest, tokens, Append(token, c), TRUE, FALSE)

shlex_split(cmd_line) == shlex(cmd_line, <<>>, <<>>, FALSE, FALSE)

\* what a handler does: the text it returns or the exception it raises, the
\* proposed_edit signals it emits, and whether the decorated body ran
Returns(response, emitted) ==
    [raised |-> NoFault, response |-> response, emitted |-> emitted, body_ran |-> TRUE]

Raises(exc) == [raised |-> exc, response |-> <<>>, emitted |-> 0, body_ran |-> TRUE]

Refused(response) ==
    [raised |-> NoFault, response |-> response, emitted |-> 0, body_ran |-> FALSE]

\* only_clt without its test
only_clt_ungated(ptype, func) == func

\* the decorators: func is what the decorated body does when it is called
only_clt(ptype, func) ==
    IF ptype = "CommandLineTool" THEN func
    ELSE Refused(<<"Can only do this on CommandLineTool", ": This is ", ptype>>)

only_wf(ptype, func) ==
    IF ptype = "Workflow" THEN func
    ELSE Refused(<<"Can only do this on Workflow">>)

\* the bodies of the commands; ext tells whether the call a body makes into the
\* rest of the program (push, insert_into_lom, add_step) raises
sbpush(args, ext) ==
    IF ~(0 < Len(args) /\ Len(args) < 3)
    THEN Returns(<<"Arguments are <message> [project/id]">>, 0)
    ELSE IF ext = "raises" THEN Raises("push failed")
    ELSE Returns(<<"Pushed app to ", "app/id", "\n">>, 0)

\* docker_scaffold's body taking every non-empty argument list
docker_body_lenient(args, ext) ==
    IF Len(args) < 1
    THEN Returns(<<"Incorrect number of arguments">>, 0)
    ELSE IF ext = "raises" THEN Raises("insert_into_lom failed")
    ELSE Returns(<<"Added DockerRequirement">>, 1)

docker_body(args, ext) ==
    IF Len(args) # 1
    THEN Returns(<<"Incorrect number of arguments">>, 0)
    ELSE IF ext = "raises" THEN Raises("insert_into_lom failed")
    ELSE Returns(<<"Added DockerRequirement">>, 1)

docker_scaffold(ptype, args, ext) == only_clt(ptype, docker_body(args, ext))

\* add_step_scaffold's body without the test for the scaffold file
add_step_body_unchecked_scaffold(args, ext, exists) ==
    IF ~(0 < Len(args) /\ Len(args) < 3)
    THEN Returns(<<"Arguments are <step_id> [path]">>, 0)
    ELSE IF ext = "raises" THEN Raises("add_step failed")
    ELSE Returns(<<"Added step">>, 1)

add_step_body(args, ext, exists) ==
    IF ~(0 < Len(args) /\ Len(args) < 3)
    THEN Returns(<<"Arguments are <step_id> [path]">>, 0)
    ELSE IF ~exists
    THEN Returns(<<"Couldn't find step scaffold file ", "step-template.cwl">>, 0)
    ELSE IF ext = "raises" THEN Raises("add_step failed")
    ELSE Returns(<<"Added step">>, 1)

add_step_scaffold(ptype, args, ext, exists) == only_wf(ptype, add_step_body(args, ext, exists))

\* the table of set_up_dispatcher: help first, then the tagged methods in the
\* order of their names (add_step_scaffold, docker_scaffold, sbpush)
help_table ==
    <<[cmd |-> "help", synonyms |-> <<"?", "h">>, help |-> "help: Print help",
       call |-> "print_help"],
      [cmd |-> "add", synonyms |-> <<>>,
       help |-> "add <step_id> [path] : Create scaffold for new inline step, or, if path is given new linked step.",
       call |-> "add_step_scaffold"],
      [cmd |-> "docker", synonyms |-> <<>>,
       help |-> "docker <docker_image> : Add DockerRequirement to CLT",
       call |-> "docker_scaffold"],
      [cmd |-> "sbpush", synonyms |-> <<>>,
       help |-> "sbpush <message> [project/id]  \nPush this app to the platform",
       call |-> "sbpush"]>>

Names(v) == {v.cmd} \cup Range(v.synonyms)

\* a table of the canonical names only
dispatch_table_canonical_only ==
    [k \in {help_table[i].cmd : i \in 1..Len(help_table)} |->
        help_table[CHOOSE i \in 1..Len(help_table) : help_table[i].cmd = k]]

\* expanded_table: every name and synonym -> its entry (a later entry wins)
dispatch_table ==
    [k \in UNION {Names(help_table[i]) : i \in 1..Len(help_table)} |->
        help_table[CHOOSE i \in 1..Len(help_table) :
            /\ k \in Names(help_table[i])
            /\ \A j \in (i + 1)..Len(help_table) : k \notin Names(help_table[j])]]

\* CommandWidget.print_help
RECURSIVE join_help(_)
join_help(entries) ==
    IF entries = <<>> THEN <<>>
    ELSE LET v == Head(entries)
             one == <<v.help, "\n">>
                    \o (IF v.synonyms # <<>>
                        THEN <<"Synonyms: ">> \o v.synonyms \o <<"\n">> ELSE <<>>)
         IN  IF Tail(entries) = <<>> THEN one ELSE one \o <<"\n">> \o join_help(Tail(entries))

print_help(args) == Returns(join_help(help_table), 0)

\* self.dispatch_table[cmd]["call"](arguments)
call(entry, ptype, args, ext, exists) ==
    CASE entry.call = "print_help" -> print_help(args)
      [] entry.call = "sbpush" -> sbpush(args, ext)
      [] entry.call = "docker_scaffold" -> docker_scaffold(ptype, args, ext)
      [] entry.call = "add_step_scaffold" -> add_step_scaffold(ptype, args, ext, exists)

\* the call without the try around it
try_call_uncaught(done) == done

\* try: response = str(call(arguments)) except Exception as e: response = "Command error:\n{e}"
try_call(done) ==
    IF done.raised = NoFault THEN done
    ELSE [done EXCEPT !.raised = NoFault, !.response = <<"Command error:", "\n", done.raised>>]

\* CommandWidget.response_received
response_received(log, cmd_line, response) ==
    log \o <<"\n", "$> ">> \o cmd_line \o <<"\n">> \o response

\* CommandWidget.command_entered, the second slot of returnPressed: the field
\* and the transcript afterwards, and what was observed on the way
command_entered(txt, log, ptype, ext, exists) ==
    LET cmd_line == txt
        parsed == shlex_split(cmd_line)
        nothing == [text |-> txt, command_log |-> log, escaped |-> NoFault,
                    cmd |-> <<>>, arguments |-> <<>>, dispatched |-> FALSE,
                    raised |-> NoFault, response |-> <<>>, emitted |-> 0,
                    body_ran |-> FALSE]
    IN  IF parsed.raised # NoFault
        THEN [nothing EXCEPT !.escaped = parsed.raised]
        ELSE IF parsed.tokens = <<>>
        THEN [nothing EXCEPT !.escaped = "ValueError: not enough values to unpack"]
        ELSE LET cmd == Head(parsed.tokens)
                 arguments == Tail(parsed.tokens)
                 known == Len(cmd) = 1 /\ cmd[1] \in DOMAIN dispatch_table
                 ran == call(dispatch_table[cmd[1]], ptype, arguments, ext, exists)
                 done == IF known THEN try_call(ran)
                         ELSE Returns(<<"Unknown command: ">> \o cmd, 0)
             IN  IF done.raised # NoFault
                 THEN [nothing EXCEPT !.escaped = done.raised, !.cmd = cmd,
                                      !.arguments = arguments, !.dispatched = known,
                                      !.raised = ran.raised, !.emitted = ran.emitted,
                                      !.body_ran = ran.body_ran]
                 ELSE [text |-> <<>>,
                       command_log |-> response_received(log, cmd_line, done.response),
                       escaped |-> NoFault, cmd |-> cmd, arguments |-> arguments,
                       dispatched |-> known,
                       raised |-> IF known THEN ran.raised ELSE NoFault,
                       response |-> done.response,
                       emitted |-> IF known THEN ran.emitted ELSE 0,
                       body_ran |-> known /\ ran.body_ran]


\* ---- the console's inputs and steps ----
ProcessTypes == {"Workflow", "CommandLineTool", "ExpressionTool", "None"}

\* the command lines typed into the console
CmdLines ==
    {<<>>, <<" ">>, <<"'", "docker">>, <<"foo">>,
     <<"help">>, <<"?">>, <<"h">>,
     <<"docker">>, <<"docker", " ", "img">>, <<"docker", " ", "a", " ", "b">>,
     <<"docker", " ", "'", "a", " ", "b", "'">>,
     <<"add">>, <<"add", " ", "s">>, <<"add", " ", "s", " ", "p">>,
     <<"add", " ", "a", " ", "b", " ", "c">>,
     <<"sbpush">>, <<"sbpush", " ", "m">>}

\* the command lines typed when walking the history
HistoryLines == {<<>>, <<"foo">>, <<"bar">>, <<"baz">>}

\* the walk of the history: foo and bar submitted, then up, up, down, down
Event(e, line) == [e |-> e, line |-> line]

ScenarioEvents ==
    <<Event("type", <<"foo">>), Event("returnPressed", <<>>),
      Event("type", <<"bar">>), Event("returnPressed", <<>>),
      Event("Key_Up", <<>>), Event("Key_Up", <<>>),
      Event("Key_Down", <<>>), Event("Key_Down", <<>>)>>

Gone == 0 - 1

Follow(ev) ==
    IF scenario # Gone /\ scenario < Len(ScenarioEvents) /\ ScenarioEvents[scenario + 1] = ev
    THEN scenario + 1 ELSE Gone

Submissions(log) == Cardinality({i \in 1..Len(log) : log[i] = "$> "})

Quiet(op) ==
    [op |-> op, cmd_line |-> <<>>, n0 |-> history_n, log0 |-> command_log,
     after_return |-> None, ptype |-> process_type, escaped |-> NoFault, cmd |-> <<>>,
     nargs |-> 0, dispatched |-> FALSE, raised |-> NoFault, response |-> <<>>,
     emitted |-> 0, body_ran |-> FALSE]

ConsoleStart ==
    /\ text = <<>>
    /\ history = << <<>> >>
    /\ history_n = 0
    /\ command_log = <<>>
    /\ scenario = 0
    /\ console_last = Quiet("init")
    /\ submitted = <<>>

InitConsole ==
    /\ process_type \in ProcessTypes
    /\ scaffold_exists \in BOOLEAN
    /\ ConsoleStart

IdleConsole ==
    /\ process_type = "Workflow"
    /\ scaffold_exists = TRUE
    /\ ConsoleStart

\* the user replaces the text of the field
TypeText(lines) ==
    \E line \in lines :
        /\ line # text
        /\ text' = line
        /\ scenario' = Follow(Event("type", line))
        /\ console_last' = [Quiet("type") EXCEPT !.cmd_line = line]
        /\ UNCHANGED <<history, history_n, command_log, process_type, scaffold_exists,
                       submitted>>

\* the user presses the up or the down key
KeyPress(key) ==
    LET after == keyPressEvent(key, history, history_n, text)
    IN  /\ history_n' = after.history_n
        /\ text' = after.text
        /\ scenario' = Follow(Event(key, <<>>))
        /\ console_last' =
               [Quiet(key) EXCEPT !.after_return =
                   IF console_last.op = "returnPressed" THEN console_last.cmd_line ELSE None]
        /\ UNCHANGED <<history, command_log, process_type, scaffold_exists, submitted>>

KeyUp == KeyPress("Key_Up")

KeyDown == KeyPress("Key_Down")

\* the user presses return: returnPressed runs CommandLine.command_entered, then
\* CommandWidget.command_entered
ReturnPressed(max) ==
    /\ Submissions(command_log) < max
    /\ Len(submitted) < max
    /\ \E ext \in {"returns", "raises"} :
           LET first == line_command_entered(history, text)
               second == command_entered(text, command_log, process_type, ext,
                                         scaffold_exists)
           IN  /\ history' = first.history
               /\ history_n' = first.history_n
               /\ text' = second.text
               /\ command_log' = second.command_log
               /\ scenario' = Follow(Event("returnPressed", <<>>))
               /\ console_last' =
                      [Quiet("returnPressed") EXCEPT
                          !.cmd_line = text, !.escaped = second.escaped,
                          !.cmd = second.cmd, !.nargs = Len(second.arguments),
                          !.dispatched = second.dispatched, !.raised = second.raised,
                          !.response = second.response, !.emitted = second.emitted,
                          !.body_ran = second.body_ran]
               /\ submitted' = Append(submitted, text)
               /\ UNCHANGED <<process_type, scaffold_exists>>

(***************************************************************************)
(* The specifications.                                                     *)
(***************************************************************************)
Init == InitShell /\ IdleConsole /\ InitWorkflow

Next ==
    \/ OpenDocument /\ UNCHANGED <<console_vars, workflow_vars>>
    \/ CloseTab /\ UNCHANGED <<console_vars, workflow_vars>>
    \/ SwitchTab /\ UNCHANGED <<console_vars, workflow_vars>>
    \/ SceneDoubleClicked /\ UNCHANGED <<console_vars, workflow_vars>>
    \/ EditRegistered /\ UNCHANGED <<console_vars, workflow_vars>>

Spec == Init /\ [][Next]_vars

InitConsoleSpec == IdleShell /\ InitConsole /\ InitWorkflow

NextConsole ==
    \/ TypeText(CmdLines) /\ UNCHANGED <<shell_vars, workflow_vars>>
    \/ ReturnPressed(MaxSubmissions) /\ UNCHANGED <<shell_vars, workflow_vars>>

SpecConsole == InitConsoleSpec /\ [][NextConsole]_vars

InitHistorySpec == IdleShell /\ IdleConsole /\ InitWorkflow

NextHistory ==
    \/ TypeText(HistoryLines) /\ UNCHANGED <<shell_vars, workflow_vars>>
    \/ KeyUp /\ UNCHANGED <<shell_vars, workflow_vars>>
    \/ KeyDown /\ UNCHANGED <<shell_vars, workflow_vars>>
    \/ ReturnPressed(MaxHistorySubmissions) /\ UNCHANGED <<shell_vars, workflow_vars>>

SpecHistory == InitHistorySpec /\ [][NextHistory]_vars

InitWorkflowSpec == IdleShell /\ IdleConsole /\ cwl_doc \in Docs /\ workflow = NotBuilt

NextWorkflow == Build /\ UNCHANGED <<shell_vars, console_vars>>

SpecWorkflow == InitWorkflowSpec /\ [][NextWorkflow]_vars

(***************************************************************************)
(* The claims.                                                             *)
(***************************************************************************)

\* C1 (as claimed): open_document for a view that already sits in a tab adds no
\* tab, leaves the tabs as they are and makes the existing tab current.
C1_ReopenCoalesces ==
    (shell_last.op = "open_document" /\ shell_last.found) =>
        /\ Len(tabs) = shell_last.count0
        /\ shell_last.same_tabs
        /\ current # 0
        /\ tabs[current].w = shell_last.key

\* C2 (as claimed): whatever reference Step.from_doc attached to the
\* double-clicked steps, scene_double_clicked does not reach its fatal
\* "Unknown sub workflow type" fault.
C2_NoUnknownSubWorkflow ==
    shell_last.op = "scene_double_clicked" =>
        shell_last.fault # "RuntimeError: Code error: Unknown sub workflow type!"

\* C3 (as claimed): the Workflow constructor raises for no syntactically valid
\* document; it always returns a graph and a problem list.
C3_ConstructionNeverRaises == workflow # NotBuilt => workflow.fault = NoFault

EchoOf(cmd_line) == <<"\n", "$> ">> \o cmd_line \o <<"\n">>

\* C4 (as claimed): every submission appends the echo of the raw command line
\* and then a response to the transcript, nothing escaping from the handler.
C4_EverySubmissionLogged ==
    console_last.op = "returnPressed" =>
        /\ console_last.escaped = NoFault
        /\ command_log = console_last.log0 \o EchoOf(console_last.cmd_line)
                                           \o console_last.response

\* C5: when the handler of a dispatched command raises, nothing escapes from
\* command_entered: the response is "Command error:" and the description of the
\* fault, the command line is cleared, and the echo and that response are
\* appended to the transcript.
C5_HandlerFaultContained ==
    (console_last.op = "returnPressed" /\ console_last.raised # NoFault) =>
        /\ console_last.escaped = NoFault
        /\ console_last.response = <<"Command error:", "\n", console_last.raised>>
        /\ text = <<>>
        /\ command_log = console_last.log0 \o EchoOf(console_last.cmd_line)
                                           \o console_last.response

C5_Witness ==
    /\ console_last.op = "returnPressed"
    /\ console_last.dispatched
    /\ console_last.raised = "push failed"
    /\ command_log # <<>>

\* C6: up moves the cursor one entry back and wraps from index 0 to the newest
\* entry; down moves it one entry forward and wraps from the newest entry and
\* from the position after a submission to index 0; the field shows the entry
\* at the cursor.  From a fresh field, after foo and bar are submitted, up, up
\* shows foo, down shows bar, down shows the empty entry.
C6_HistoryWraps ==
    /\ console_last.op = "Key_Up" =>
           /\ history_n = IF console_last.n0 = 0 THEN Len(history) - 1
                          ELSE console_last.n0 - 1
           /\ text = history[history_n + 1]
    /\ console_last.op = "Key_Down" =>
           /\ history_n = IF console_last.n0 >= Len(history) - 1 THEN 0
                          ELSE console_last.n0 + 1
           /\ text = history[history_n + 1]
    /\ scenario = 4 => history = << <<>>, <<"foo">>, <<"bar">> >> /\ history_n = 3
    /\ scenario = 6 => text = <<"foo">>
    /\ scenario = 7 => text = <<"bar">>
    /\ scenario = 8 => text = <<>>

C6_Witness == scenario = Len(ScenarioEvents) /\ console_last.op = "Key_Down"

\* C7 (as claimed): the up key pressed right after a command line was submitted
\* shows that command line.
C7_UpShowsSubmitted ==
    (console_last.op = "Key_Up" /\ console_last.after_return # None) =>
        text = console_last.after_return

DockerArgCount ==
    /\ console_last.op = "returnPressed"
    /\ console_last.dispatched
    /\ console_last.cmd = <<"docker">>
    /\ console_last.nargs \in {0, 2}

\* C8 (as claimed): docker with zero or with two arguments answers "Incorrect
\* number of arguments" and emits no proposed_edit, whatever the document.
C8_DockerArgCountAnyDocument ==
    DockerArgCount =>
        /\ console_last.response = <<"Incorrect number of arguments">>
        /\ console_last.emitted = 0

\* C8 (amended): docker with zero or with two arguments, on a document whose
\* process type is CommandLineTool, answers "Incorrect number of arguments" and
\* emits no proposed_edit.
C8_DockerArgCountOnTool ==
    (DockerArgCount /\ console_last.ptype = "CommandLineTool") =>
        /\ console_last.response = <<"Incorrect number of arguments">>
        /\ console_last.emitted = 0
        /\ console_last.escaped = NoFault

C8_Witness ==
    /\ DockerArgCount
    /\ console_last.ptype = "CommandLineTool"
    /\ console_last.nargs = 2

\* C9: docker on a document that is no CommandLineTool answers "Can only do
\* this on CommandLineTool..", add on a document that is no Workflow answers
\* "Can only do this on Workflow", whatever the arguments; the gated body does
\* not run and no proposed_edit is emitted.
C9_ProcessTypeGating ==
    (console_last.op = "returnPressed" /\ console_last.dispatched) =>
        /\ (console_last.cmd = <<"docker">> /\ console_last.ptype # "CommandLineTool") =>
               /\ console_last.response # <<>>
               /\ Head(console_last.response) = "Can only do this on CommandLineTool"
               /\ ~console_last.body_ran
               /\ console_last.emitted = 0
               /\ console_last.escaped = NoFault
        /\ (console_last.cmd = <<"add">> /\ console_last.ptype # "Workflow") =>
               /\ console_last.response = <<"Can only do this on Workflow">>
               /\ ~console_last.body_ran
               /\ console_last.emitted = 0
               /\ console_last.escaped = NoFault

C9_Witness ==
    /\ console_last.op = "returnPressed"
    /\ console_last.cmd = <<"docker">>
    /\ console_last.nargs = 1
    /\ console_last.ptype = "Workflow"
    /\ Head(console_last.response) = "Can only do this on CommandLineTool"

Writes(events) == Cardinality({i \in 1..Len(events) : events[i].call = "write"})

Saving(events) ==
    \E i \in 1..Len(events) :
        events[i].call = "apply_document_edits" /\ events[i].path # "None"

\* C10 (as claimed): an emitted edit writes no file when autosave is off; when
\* it is on, it writes the document the manager returned exactly once, after
\* the manager has returned, and writes nothing when the manager returned none.
C10_AutosaveGating ==
    shell_last.op = "edit_registered" =>
        /\ ~autosave => Writes(shell_last.events) = 0 /\ disk = {}
        /\ autosave =>
               /\ Writes(shell_last.events) = IF Saving(shell_last.events) THEN 1 ELSE 0
               /\ \A i \in 1..Len(shell_last.events) :
                      shell_last.events[i].call = "write" =>
                          /\ i > 1
                          /\ shell_last.events[i - 1].call = "apply_document_edits"
                          /\ shell_last.events[i - 1].path = shell_last.events[i].path

OneActiveView ==
    /\ current \in 1..Len(tabs)
    /\ active = {tabs[current].w}
    /\ active_window = tabs[current].w

SwitchCalls(from, to) ==
    <<[call |-> "set_inactive_window", view |-> from],
      [call |-> "set_active_window", view |-> to]>>

\* C11 (as claimed): once a first tab exists, after any opens, switches and
\* closes of tabs exactly one view is active, it is the view of the current tab
\* and it is active_window; a tab switch calls set_inactive_window on the view
\* that was active and then set_active_window on the newly current one.
C11_OneActiveView ==
    /\ shell_last.op # "init" => OneActiveView
    /\ shell_last.op = "setCurrentIndex" =>
           shell_last.calls = SwitchCalls(shell_last.active0, shell_last.key)

\* ---- what a document asks for, read off the document alone ----

\* the inputs and outputs of the process a run value names; none when it names
\* no readable process
RunTarget(run) ==
    IF run.kind = "process" THEN [inputs |-> run.inputs, outputs |-> run.outputs]
    ELSE IF run.kind = "str" /\ Resolve("/wf/wf.cwl", run.value) \in DOMAIN FileSystem
    THEN FileSystem[Resolve("/wf/wf.cwl", run.value)]
    ELSE [inputs |-> <<>>, outputs |-> <<>>]

\* the sources that name a port of the document: a workflow input, or an output
\* of the run target of one of its steps
Resolvable(doc, src) ==
    LET d == doc.cwl_dict
    IN  \/ \E i \in 1..Len(d.inputs) : src = <<d.inputs[i].id>>
        \/ \E i \in 1..Len(d.steps) :
               /\ d.steps[i].body.kind = "CWLMap"
               /\ \E o \in Range(RunTarget(d.steps[i].body.run).outputs) :
                      src = <<d.steps[i].id, "/", o>>

CountOf(srcs, doc, good) ==
    Cardinality({i \in 1..Len(srcs) : Resolvable(doc, srcs[i]) = good})

ConnectionsInto(wf, node_id, port_id) ==
    Cardinality({i \in 1..Len(wf.connections) :
                     /\ wf.connections[i].dst.node_id = node_id
                     /\ wf.connections[i].dst.port_id = port_id})

\* the problem strings the source lookups of one sink left: "<sink>: <message>"
SourceProblems(wf, scope) ==
    Cardinality({i \in 1..Len(wf.problems_with_wf) :
                     IsPrefix(scope \o <<": ">>, wf.problems_with_wf[i])})

\* how problem strings name the sink of a step
SinkScope(step_doc, sink_id) ==
    RunTarget(step_doc.body.run).inputs \o <<"->", step_doc.id, "->">>
    \o RunTarget(step_doc.body.run).outputs \o <<".", sink_id>>

\* an in entry that names a sink of its step and gives sources for it
GivesSources(step_doc, entry) ==
    /\ entry.id \in Range(RunTarget(step_doc.body.run).inputs)
    /\ \/ entry.port_doc.kind \in {"str", "plain_list"}
       \/ entry.port_doc.kind = "CWLMap" /\ entry.port_doc.has_source

PerSource(doc, wf, srcs, node_id, port_id, scope) ==
    /\ wf.fault = NoFault
    /\ ConnectionsInto(wf, node_id, port_id) = CountOf(srcs, doc, TRUE)
    /\ SourceProblems(wf, scope) = CountOf(srcs, doc, FALSE)

\* C12 (as claimed): for every in entry of a step and every outputSource of a
\* workflow output, the model holds exactly one Connection per source of the
\* list that resolves and exactly one problem string per source that does not.
C12_PerSourceIsolation ==
    workflow # NotBuilt =>
        LET d == cwl_doc.cwl_dict
        IN  /\ \A i \in 1..Len(d.outputs) :
                   d.outputs[i].has_outputSource =>
                       PerSource(cwl_doc, workflow,
                                 iter_scalar_or_list(d.outputs[i].outputSource),
                                 "None", d.outputs[i].id, <<d.outputs[i].id>>)
            /\ \A i \in 1..Len(d.steps) :
                   \A j \in 1..Len(d.steps[i].body.in) :
                       GivesSources(d.steps[i], d.steps[i].body.in[j]) =>
                           PerSource(cwl_doc, workflow,
                                     iter_scalar_or_list(d.steps[i].body.in[j].port_doc.value),
                                     d.steps[i].id, d.steps[i].body.in[j].id,
                                     SinkScope(d.steps[i], d.steps[i].body.in[j].id))

\* the document with every bare in entry (a source string, a plain list of them)
\* written in full, as a mapping with the key source
FullEntry(entry) ==
    IF entry.port_doc.kind \in {"str", "plain_list"}
    THEN [entry EXCEPT !.port_doc = PortDoc("CWLMap", TRUE, entry.port_doc.value)]
    ELSE entry

FullForm(doc) ==
    [doc EXCEPT !.cwl_dict.steps =
        [i \in 1..Len(@) |->
            [@[i] EXCEPT !.body.in = [j \in 1..Len(@) |-> FullEntry(@[j])]]]]

HasShorthand(doc) ==
    \E i \in 1..Len(doc.cwl_dict.steps) :
        \E j \in 1..Len(doc.cwl_dict.steps[i].body.in) :
            doc.cwl_dict.steps[i].body.in[j].port_doc.kind \in {"str", "plain_list"}

SameConnections(a, b) ==
    /\ Len(a) = Len(b)
    /\ \A i \in 1..Len(a) : ConnectionEq(a[i], b[i])

\* C13: a document with in entries written as bare source strings and the same
\* document with them written as mappings with the key source give the same
\* connections (source port, sink port), in the same order, the same problem
\* strings and the same fault, if construction raises.
C13_ShorthandEqualsFullForm ==
    (workflow # NotBuilt /\ HasShorthand(cwl_doc)) =>
        LET full == Workflow(FullForm(cwl_doc))
        IN  /\ SameConnections(workflow.connections, full.connections)
            /\ workflow.problems_with_wf = full.problems_with_wf
            /\ workflow.fault = full.fault

\* a bare source string that resolved: the two forms record different lines
C13_Witness ==
    /\ workflow # NotBuilt
    /\ workflow.fault = NoFault
    /\ HasShorthand(cwl_doc)
    /\ \E i \in 1..Len(workflow.connections) :
           /\ workflow.connections[i].dst.node_id = "s2"
           /\ workflow.connections[i].line = <<"steps", "s2", "in">>
           /\ Workflow(FullForm(cwl_doc)).connections[i].line # workflow.connections[i].line

\* the steps of the document whose run is a string naming no readable file
MissingRun(step_doc) ==
    /\ step_doc.body.kind = "CWLMap"
    /\ step_doc.body.run.kind = "str"
    /\ Resolve("/wf/wf.cwl", step_doc.body.run.value) \notin DOMAIN FileSystem

NotFoundProblem(run) ==
    <<"Could not find sub workflow: ", run.value, " (resolved to ">>
    \o as_uri(Resolve("/wf/wf.cwl", run.value)) \o <<")">>

ProblemCount(wf, problem) ==
    Cardinality({i \in 1..Len(wf.problems_with_wf) : wf.problems_with_wf[i] = problem})

MissingRunReported(i) ==
    /\ workflow.steps[i].available_sinks = <<>>
    /\ workflow.steps[i].available_sources = <<>>
    /\ ProblemCount(workflow, NotFoundProblem(cwl_doc.cwl_dict.steps[i].body.run)) =
           Cardinality({j \in 1..Len(cwl_doc.cwl_dict.steps) :
                            /\ MissingRun(cwl_doc.cwl_dict.steps[j])
                            /\ cwl_doc.cwl_dict.steps[j].body.run =
                                   cwl_doc.cwl_dict.steps[i].body.run})

\* C14 (as claimed): a step whose run is a string path to a file that does not
\* exist gets the sub-workflow reference a step without run gets, an Invalid
\* value, no sinks and no sources, and one problem string with the path as
\* written and the resolved path.
C14_MissingRunIsInvalid ==
    (workflow # NotBuilt /\ workflow.fault = NoFault) =>
        \A i \in 1..Len(cwl_doc.cwl_dict.steps) :
            MissingRun(cwl_doc.cwl_dict.steps[i]) =>
                /\ workflow.steps[i].sub_workflow = InvalidSub
                /\ isinstance(workflow.steps[i].sub_workflow, "InvalidSub")
                /\ MissingRunReported(i)

LacksRun(step_doc) == step_doc.body.kind = "None" \/ step_doc.body.run.kind = "absent"

NoRunReported(i) ==
    /\ workflow.fault = NoFault
    /\ Len(workflow.steps) = Len(cwl_doc.cwl_dict.steps)
    /\ workflow.steps[i].id = cwl_doc.cwl_dict.steps[i].id
    /\ workflow.steps[i].available_sinks = <<>>
    /\ workflow.steps[i].available_sources = <<>>
    /\ workflow.steps[i].sub_workflow = InvalidSub
    /\ ProblemCount(workflow, <<"step ", cwl_doc.cwl_dict.steps[i].id,
                                " has no run field">>) = 1

\* C15 (as claimed): a step entry without run gets a Step with no sinks, no
\* sources and the Invalid reference, and exactly one problem string "step <id>
\* has no run field"; the other steps of the workflow are built as well.
C15_NoRunIsInvalid ==
    workflow # NotBuilt =>
        \A i \in 1..Len(cwl_doc.cwl_dict.steps) :
            LacksRun(cwl_doc.cwl_dict.steps[i]) => NoRunReported(i)

\* one Port per id, in order, owned by the step
PortsOf(step_id, ids, ports) ==
    /\ Len(ports) = Len(ids)
    /\ \A k \in 1..Len(ids) : ports[k].node_id = step_id /\ ports[k].port_id = ids[k]

OwnInlinePath(doc) == IF doc.inline_path = None THEN <<>> ELSE doc.inline_path

Classified(doc, step_doc, step) ==
    LET run == step_doc.body.run
        sub == step.sub_workflow
    IN  /\ run.kind = "process" =>
               /\ isinstance(sub, "InlineSub")
               /\ sub.path = doc.path
               /\ sub.inline_path = OwnInlinePath(doc) \o <<step_doc.id>>
        /\ (run.kind = "str" /\ ~MissingRun(step_doc)) =>
               /\ isinstance(sub, "ExternalSub")
               /\ sub.path = "/wf/tool.cwl"
        /\ PortsOf(step_doc.id, RunTarget(run).inputs, step.available_sinks)
        /\ PortsOf(step_doc.id, RunTarget(run).outputs, step.available_sources)

\* C16: in a constructed model a step whose run is an embedded process has the
\* reference Inline with the document's path and the document's inline path
\* (empty when it has none) followed by the step id; a step whose run names a
\* readable file has the reference External with the resolved path; its sinks
\* and sources are one Port per input and per output of the run target, owned
\* by the step.
C16_InlineExternalClassification ==
    (workflow # NotBuilt /\ workflow.fault = NoFault) =>
        \A i \in 1..Len(cwl_doc.cwl_dict.steps) :
            (~LacksRun(cwl_doc.cwl_dict.steps[i]) /\ ~MissingRun(cwl_doc.cwl_dict.steps[i])) =>
                Classified(cwl_doc, cwl_doc.cwl_dict.steps[i], workflow.steps[i])

\* a document with a step of each kind
C16_Witness ==
    /\ workflow # NotBuilt
    /\ workflow.fault = NoFault
    /\ Len(workflow.steps) = 2
    /\ isinstance(workflow.steps[1].sub_workflow, "ExternalSub")
    /\ isinstance(workflow.steps[2].sub_workflow, "InlineSub")
    /\ workflow.steps[1].available_sources # <<>>

MissingProblem(sec) == <<"'", sec, "' missing">>

\* C17: for a workflow document with any subset of the five required sections
\* missing, construction raises nothing and records exactly one problem string
\* "'<section>' missing" per missing section and none for a present one; inputs,
\* outputs and steps are empty when their section is missing; section_lines has
\* a line range for exactly those of inputs and outputs that are present.
C17_RequiredSections ==
    (workflow # NotBuilt /\ cwl_doc \in SectionDocs) =>
        LET keys == cwl_doc.cwl_dict.keys
        IN  /\ workflow.fault = NoFault
            /\ \A sec \in {"cwlVersion", "class", "inputs", "outputs", "steps"} :
                   ProblemCount(workflow, MissingProblem(sec)) =
                       IF sec \in keys THEN 0 ELSE 1
            /\ "inputs" \notin keys => workflow.inputs = <<>>
            /\ "outputs" \notin keys => workflow.outputs = <<>>
            /\ "steps" \notin keys => workflow.steps = <<>>
            /\ {r.section : r \in workflow.section_lines} = {"inputs", "outputs"} \cap keys
            /\ \A r \in workflow.section_lines : r.line = <<r.section>>

\* the document without outputs and without class
C17_Witness ==
    /\ workflow # NotBuilt
    /\ cwl_doc \in SectionDocs
    /\ cwl_doc.cwl_dict.keys = {"cwlVersion", "inputs", "steps"}
    /\ workflow.outputs = <<>>
    /\ workflow.steps # <<>>
    /\ ProblemCount(workflow, MissingProblem("outputs")) = 1

HelpNames == {<<"help">>, <<"?">>, <<"h">>}

Occurrences(response, piece) ==
    Cardinality({i \in 1..Len(response) : response[i] = piece})

\* C18: every name and every synonym of a command is dispatched to the entry of
\* the command; help, ? and h without arguments give the response help gives,
\* and that response lists each registered command exactly once.
C18_SynonymEquivalence ==
    /\ \A i \in 1..Len(help_table) :
           \A k \in Names(help_table[i]) :
               k \in DOMAIN dispatch_table /\ dispatch_table[k] = help_table[i]
    /\ (/\ console_last.op = "returnPressed"
        /\ console_last.cmd \in HelpNames
        /\ console_last.nargs = 0) =>
           /\ console_last.escaped = NoFault
           /\ console_last.dispatched
           /\ console_last.response =
                  command_entered(<<"help">>, <<>>, process_type, "returns",
                                  scaffold_exists).response
           /\ \A i \in 1..Len(help_table) :
                  Occurrences(console_last.response, help_table[i].help) = 1
           /\ Cardinality({help_table[i].cmd : i \in 1..Len(help_table)}) = Len(help_table)

C18_Witness ==
    /\ console_last.op = "returnPressed"
    /\ console_last.cmd = <<"?">>
    /\ console_last.nargs = 0
    /\ console_last.dispatched
    /\ Occurrences(console_last.response, "help: Print help") = 1
    /\ command_log # <<>>

AddSubmitted ==
    /\ console_last.op = "returnPressed"
    /\ console_last.dispatched
    /\ console_last.cmd = <<"add">>

AddChecksPass ==
    /\ console_last.ptype = "Workflow"
    /\ console_last.nargs \in {1, 2}
    /\ scaffold_exists

\* the message of the first check that fails: process type, argument count,
\* scaffold file
AddRefusal ==
    IF console_last.ptype # "Workflow" THEN <<"Can only do this on Workflow">>
    ELSE IF console_last.nargs \notin {1, 2} THEN <<"Arguments are <step_id> [path]">>
    ELSE <<"Couldn't find step scaffold file ", "step-template.cwl">>

AddRefused ==
    ~AddChecksPass => console_last.emitted = 0 /\ console_last.response = AddRefusal

\* C19 (as claimed): add emits exactly one proposed_edit and answers "Added
\* step" exactly when the process type is Workflow, it has 1 or 2 arguments and
\* the scaffold file exists; otherwise it emits nothing and answers with the
\* message of the first failed check.
C19_AddExactlyWhenChecksPass ==
    AddSubmitted =>
        /\ AddChecksPass =>
               console_last.emitted = 1 /\ console_last.response = <<"Added step">>
        /\ AddRefused

\* C19 (amended): when the three checks pass, add emits exactly one
\* proposed_edit and answers "Added step" if the calls it makes to build the
\* edit raise nothing, and emits nothing and answers "Command error:" with the
\* fault if one of them raises; when a check fails it emits nothing and
\* answers with the message of the first failed check.
C19_AddWhenChecksPassAndNothingRaises ==
    AddSubmitted =>
        /\ (AddChecksPass /\ console_last.raised = NoFault) =>
               console_last.emitted = 1 /\ console_last.response = <<"Added step">>
        /\ (AddChecksPass /\ console_last.raised # NoFault) =>
               /\ console_last.emitted = 0
               /\ console_last.response = <<"Command error:", "\n", console_last.raised>>
        /\ AddRefused
        /\ ~AddChecksPass => console_last.raised = NoFault
        /\ console_last.escaped = NoFault

C19_Witness ==
    /\ AddSubmitted
    /\ AddChecksPass
    /\ console_last.nargs = 2
    /\ console_last.emitted = 1
    /\ console_last.response = <<"Added step">>

\* the lines of a sequence of submissions in the order of their first
\* submission, the empty line left out
RECURSIVE FirstSubmissions(_, _)
FirstSubmissions(lines, seen) ==
    IF lines = <<>> THEN <<>>
    ELSE IF Head(lines) \in seen THEN FirstSubmissions(Tail(lines), seen)
    ELSE <<Head(lines)>> \o FirstSubmissions(Tail(lines), seen \cup {Head(lines)})

\* the history begins with the empty string, holds no entry twice, and after its
\* first entry holds the submitted command lines in the order of their first
\* submission
HistoryContent ==
    /\ history # <<>>
    /\ history[1] = <<>>
    /\ \A i, j \in 1..Len(history) : history[i] = history[j] => i = j
    /\ Tail(history) = FirstSubmissions(submitted, {<<>>})
    /\ Range(submitted) \subseteq Range(history)

\* C20: after any submissions and key presses the first entry of the history
\* is the empty string, no entry occurs twice, the history holds every
\* submitted command line in the order of first submission, and no step
\* removes or reorders an entry.
C20_HistoryContent ==
    /\ []HistoryContent
    /\ [][IsPrefix(history, history')]_vars

\* a line submitted a second time, after another one
C20_Witness ==
    /\ history = << <<>>, <<"foo">>, <<"bar">> >>
    /\ submitted = << <<"foo">>, <<"bar">>, <<"foo">> >>

Calls(events, name) == Cardinality({i \in 1..Len(events) : events[i].call = name})

\* C21 (as claimed): after any open_document calls, re-opens of a document in a
\* tab and re-opens after its tab was closed included, the two signals of every
\* view that was opened are connected to the shell's slots exactly once; one
\* emitted edit runs edit_registered once and one double click runs
\* scene_double_clicked once.
C21_ConnectedOnce ==
    /\ \A v \in View : connections[v] <= 1
    /\ \A i \in 1..Len(tabs) : connections[tabs[i].w] = 1
    /\ shell_last.op = "edit_registered" =>
           Calls(shell_last.events, "apply_document_edits") = 1
    /\ shell_last.op = "scene_double_clicked" => shell_last.runs = 1

IsSource(wf, port) ==
    \/ port \in Range(wf.inputs)
    \/ \E s \in 1..Len(wf.steps) : port \in Range(wf.steps[s].available_sources)

\* the port is a sink of a step whose in mapping has an entry of that name
IsNamedSink(doc, wf, port) ==
    \E s \in 1..Len(wf.steps) :
        /\ port \in Range(wf.steps[s].available_sinks)
        /\ \E e \in Range(doc.cwl_dict.steps[s].body.in) : e.id = port.port_id

NoSuchSink(step_id, sink_id) == <<"No such sink: ", step_id, ".", sink_id>>

\* C22: in a built Workflow the source of every Connection is a port of the
\* workflow's inputs or of some step's available_sources, and its sink is a
\* port of the available_sinks of a step whose in entry names it or a port of
\* the workflow's outputs; an in entry naming a sink its step does not have
\* leaves one problem string and no Connection.
C22_ConnectionsWellFormed ==
    (workflow # NotBuilt /\ workflow.fault = NoFault) =>
        /\ \A i \in 1..Len(workflow.connections) :
               /\ IsSource(workflow, workflow.connections[i].src)
               /\ \/ workflow.connections[i].dst \in Range(workflow.outputs)
                  \/ IsNamedSink(cwl_doc, workflow, workflow.connections[i].dst)
        /\ \A s \in 1..Len(cwl_doc.cwl_dict.steps) :
               \A e \in Range(cwl_doc.cwl_dict.steps[s].body.in) :
                   e.id \notin Range(RunTarget(cwl_doc.cwl_dict.steps[s].body.run).inputs) =>
                       /\ ProblemCount(workflow,
                                       NoSuchSink(cwl_doc.cwl_dict.steps[s].id, e.id)) = 1
                       /\ ConnectionsInto(workflow, cwl_doc.cwl_dict.steps[s].id, e.id) = 0

\* a step input fed by a list of two sources, next to the connection of the output
C22_Witness ==
    /\ workflow # NotBuilt
    /\ workflow.fault = NoFault
    /\ ConnectionsInto(workflow, "s2", "i1") = 2
    /\ ConnectionsInto(workflow, "None", "out1") = 1

====
